---- MODULE Spec2Model ----
(***************************************************************************)
(* nbpy: NationBuilderApi, the base class of the NationBuilder bindings.   *)
(*                                                                         *)
(* The model covers the constructor, _check_response / _raise_error /     *)
(* NBResponseError.__init__, and _authorise stepped statement by           *)
(* statement, for callers whose calls do not overlap (Spec) and for two    *)
(* threads sharing one gateway (SpecConc).                                 *)
(***************************************************************************)
EXTENDS Integers, Sequences, FiniteSets

VARIABLES
    gw,            \* "new" before __init__, "ready" after it, "failed" if it raised
    NATION_SLUG,   \* self.NATION_SLUG
    ACCESS_TOKEN,  \* self.ACCESS_TOKEN
    BASE_URL,      \* self.BASE_URL, the pieces joined by ''.join
    http,          \* self.http: HttpNone or the identity of an httplib2.Http object
    authorized,    \* the Http objects cred.authorize() has wrapped
    httpMade,      \* number of httplib2.Http objects constructed
    credMade,      \* number of AccessTokenCredentials objects constructed
    pc,            \* per thread: the statement of _authorise it is about to run
    cred,          \* per thread: the local cred of _authorise (its access token)
    tmp,           \* per thread: the value of cred.authorize(self.http) before it is stored
    outcome,       \* per thread: how its last _authorise call ended
    calls,         \* per thread: number of _authorise calls started
    args,          \* the arguments of the last _check_response call, <<>> before the first
    raised,        \* the exception objects that call constructed and raised
    stdout,        \* what that call printed
    debuglog       \* what that call passed to log.debug

vars == <<gw, NATION_SLUG, ACCESS_TOKEN, BASE_URL, http, authorized, httpMade,
          credMade, pc, cred, tmp, outcome, calls, args, raised, stdout, debuglog>>

gwVars == <<gw, NATION_SLUG, ACCESS_TOKEN, BASE_URL>>
authVars == <<http, authorized, httpMade, credMade, pc, cred, tmp, outcome, calls>>
checkVars == <<args, raised, stdout, debuglog>>

----------------------------------------------------------------------------
(* Bounds and input sets *)

\* _authorise calls each thread may start
MaxCalls == 2

\* Python's None where a string is expected
None == "<None>"

\* self.http = None
HttpNone == 0

Threads == {"t1", "t2"}

Slugs == {None, "acme"}
Tokens == {None, "", "FFAA55DDFFAA22"}

Statuses == {100, 199, 200, 299, 300, 301, 400, 404, 500, 503}
HeaderSets == {"etag"}
Headers == [status : Statuses, fields : HeaderSets]
Contents == {"", "{\"error\":\"not found\"}"}
Actions == {None, "", "get person"}
Urls == {None, "", "https://acme.nationbuilder.com/api/v1/people/1"}

----------------------------------------------------------------------------
(* Python helpers *)

\* truth value of a str-or-None object, as `or` tests it
Truthy(x) == x # None /\ x # ""

\* a or b
Or(a, b) == IF Truthy(a) THEN a ELSE b

\* str(x), as print and %s apply it
Str(x) == IF x = None THEN "None" ELSE x

----------------------------------------------------------------------------
(* __init__ *)

Construct(nation_slug, api_key) ==
    /\ gw = "new"
    /\ NATION_SLUG' = nation_slug
    /\ ACCESS_TOKEN' = api_key
    /\ IF nation_slug = None
         THEN \* ''.join() of a list holding None raises TypeError
              /\ gw' = "failed"
              /\ BASE_URL' = BASE_URL
         ELSE /\ gw' = "ready"
              /\ BASE_URL' = <<"https://", nation_slug, ".nationbuilder.com/api/v1">>
    /\ http' = HttpNone
    /\ UNCHANGED <<authorized, httpMade, credMade, pc, cred, tmp, outcome, calls>>
    /\ UNCHANGED checkVars

----------------------------------------------------------------------------
(* _check_response, _raise_error, NBResponseError *)

\* error_map without its 400 entry
error_map_get_no400(status) ==
    CASE status = 404 -> "NBNotFoundError"
      [] OTHER -> None

\* error_map.get(status): the class, or None
error_map_get(status) ==
    CASE status = 404 -> "NBNotFoundError"
      [] status = 400 -> "NBBadRequestError"
      [] OTHER -> None

\* NBResponseError.__init__ that prints the header and the body but not the url
NBResponseError_init_nourl(cls, msg, header, body, url) ==
    [exc |-> [cls |-> cls, url |-> url, header |-> header, body |-> body, msg |-> msg],
     out |-> << [fmt |-> "Header: %s", arg |-> header],
                [fmt |-> "Body: %s", arg |-> body] >>]

\* NBResponseError.__init__ (inherited by both subclasses): the object and its prints
NBResponseError_init(cls, msg, header, body, url) ==
    [exc |-> [cls |-> cls, url |-> url, header |-> header, body |-> body, msg |-> msg],
     out |-> << [fmt |-> "%s", arg |-> Str(url)],
                [fmt |-> "Header: %s", arg |-> header],
                [fmt |-> "Body: %s", arg |-> body] >>]

\* _raise_error passing url and msg to the constructor in each other's place
raise_error_swapped(msg, header, body, url) ==
    LET err == Or(error_map_get(header.status), "NBResponseError")
        e == NBResponseError_init(err, url, header, body, msg)
    IN  [raised |-> <<e.exc>>, out |-> e.out, dbg |-> <<>>]

\* _raise_error: the exception it raises, with what constructing it printed
raise_error(msg, header, body, url) ==
    LET err == Or(error_map_get(header.status), "NBResponseError")
        e == NBResponseError_init(err, msg, header, body, url)
    IN  [raised |-> <<e.exc>>, out |-> e.out, dbg |-> <<>>]

\* the test of line 109 with its upper comparison off by one
IsErrorStatus_offbyone(status) == status < 200 \/ status >= 299

\* the test of line 109
IsErrorStatus(status) == status < 200 \/ status > 299

check_response(headers, content, attempted_action, url) ==
    IF IsErrorStatus(headers.status)
      THEN raise_error(attempted_action, headers, content, url)
      ELSE [raised |-> <<>>, out |-> <<>>,
            dbg |-> << [level |-> "debug", fmt |-> "Request to %s successful.",
                        arg |-> Or(url, Or(attempted_action, "Unknown"))] >>]

\* _check_response that drops the session when the response is an error
CheckResponse_resets(headers, content, attempted_action, url) ==
    /\ gw = "ready"
    /\ LET r == check_response(headers, content, attempted_action, url)
       IN  /\ args' = <<headers, content, attempted_action, url>>
           /\ raised' = r.raised
           /\ stdout' = r.out
           /\ debuglog' = r.dbg
           /\ http' = IF r.raised = <<>> THEN http ELSE HttpNone
    /\ UNCHANGED gwVars
    /\ UNCHANGED <<authorized, httpMade, credMade, pc, cred, tmp, outcome, calls>>

\* a call of _check_response with its outcome recorded
CheckResponse(headers, content, attempted_action, url) ==
    /\ gw = "ready"
    /\ LET r == check_response(headers, content, attempted_action, url)
       IN  /\ args' = <<headers, content, attempted_action, url>>
           /\ raised' = r.raised
           /\ stdout' = r.out
           /\ debuglog' = r.dbg
    /\ UNCHANGED gwVars
    /\ UNCHANGED authVars

----------------------------------------------------------------------------
(* _authorise, one action per statement *)

Idle == \A t \in Threads : pc[t] = "idle"

\* the call: enter _authorise
Begin(t) ==
    /\ gw = "ready"
    /\ pc[t] = "idle"
    /\ calls[t] < MaxCalls
    /\ calls' = [calls EXCEPT ![t] = @ + 1]
    /\ pc' = [pc EXCEPT ![t] = "l129"]
    /\ outcome' = [outcome EXCEPT ![t] = "running"]
    /\ UNCHANGED <<http, authorized, httpMade, credMade, cred, tmp>>
    /\ UNCHANGED gwVars
    /\ UNCHANGED checkVars

\* line 129 without the early return
L129_never_returns(t) ==
    /\ pc[t] = "l129"
    /\ pc' = [pc EXCEPT ![t] = "l131"]
    /\ UNCHANGED <<http, authorized, httpMade, credMade, cred, tmp, outcome, calls>>
    /\ UNCHANGED gwVars
    /\ UNCHANGED checkVars

\* if self.http is not None: return
L129(t) ==
    /\ pc[t] = "l129"
    /\ IF http # HttpNone
         THEN /\ pc' = [pc EXCEPT ![t] = "idle"]
              /\ outcome' = [outcome EXCEPT ![t] = "returned"]
         ELSE /\ pc' = [pc EXCEPT ![t] = "l131"]
              /\ outcome' = outcome
    /\ UNCHANGED <<http, authorized, httpMade, credMade, cred, tmp, calls>>
    /\ UNCHANGED gwVars
    /\ UNCHANGED checkVars

\* line 131 with the assertion compiled out
L131_noassert(t) ==
    /\ pc[t] = "l131"
    /\ pc' = [pc EXCEPT ![t] = "l138"]
    /\ UNCHANGED <<http, authorized, httpMade, credMade, cred, tmp, outcome, calls>>
    /\ UNCHANGED gwVars
    /\ UNCHANGED checkVars

\* the assertion made only after the credentials object was built
L131_late(t) ==
    /\ pc[t] = "l131"
    /\ cred' = [cred EXCEPT ![t] = ACCESS_TOKEN]
    /\ credMade' = credMade + 1
    /\ IF ACCESS_TOKEN # None
         THEN /\ pc' = [pc EXCEPT ![t] = "l141"]
              /\ outcome' = outcome
         ELSE /\ pc' = [pc EXCEPT ![t] = "idle"]
              /\ outcome' = [outcome EXCEPT ![t] = "AssertionError"]
    /\ UNCHANGED <<http, authorized, httpMade, tmp, calls>>
    /\ UNCHANGED gwVars
    /\ UNCHANGED checkVars

\* assert self.ACCESS_TOKEN is not None
L131(t) ==
    /\ pc[t] = "l131"
    /\ IF ACCESS_TOKEN # None
         THEN /\ pc' = [pc EXCEPT ![t] = "l138"]
              /\ outcome' = outcome
         ELSE /\ pc' = [pc EXCEPT ![t] = "idle"]
              /\ outcome' = [outcome EXCEPT ![t] = "AssertionError"]
    /\ UNCHANGED <<http, authorized, httpMade, credMade, cred, tmp, calls>>
    /\ UNCHANGED gwVars
    /\ UNCHANGED checkVars

\* cred = AccessTokenCredentials(self.ACCESS_TOKEN, None)
L138(t) ==
    /\ pc[t] = "l138"
    /\ cred' = [cred EXCEPT ![t] = ACCESS_TOKEN]
    /\ credMade' = credMade + 1
    /\ pc' = [pc EXCEPT ![t] = "l141"]
    /\ UNCHANGED <<http, authorized, httpMade, tmp, outcome, calls>>
    /\ UNCHANGED gwVars
    /\ UNCHANGED checkVars

\* self.http = httplib2.Http(disable_ssl_certificate_validation=True)
L141(t) ==
    /\ pc[t] = "l141"
    /\ httpMade' = httpMade + 1
    /\ http' = httpMade + 1
    /\ pc' = [pc EXCEPT ![t] = "l142"]
    /\ UNCHANGED <<authorized, credMade, cred, tmp, outcome, calls>>
    /\ UNCHANGED gwVars
    /\ UNCHANGED checkVars

\* cred.authorize(self.http): reads self.http, wraps that object's request and
\* returns the same object; the library call may raise instead
L142call(t) ==
    /\ pc[t] = "l142"
    /\ \/ /\ authorized' = authorized \cup {http}
          /\ tmp' = [tmp EXCEPT ![t] = http]
          /\ pc' = [pc EXCEPT ![t] = "l142store"]
          /\ outcome' = outcome
       \/ /\ pc' = [pc EXCEPT ![t] = "idle"]
          /\ outcome' = [outcome EXCEPT ![t] = "LibraryError"]
          /\ UNCHANGED <<authorized, tmp>>
    /\ UNCHANGED <<http, httpMade, credMade, cred, calls>>
    /\ UNCHANGED gwVars
    /\ UNCHANGED checkVars

\* line 142 storing None, as if authorize() returned nothing
L142store_none(t) ==
    /\ pc[t] = "l142store"
    /\ http' = HttpNone
    /\ pc' = [pc EXCEPT ![t] = "idle"]
    /\ outcome' = [outcome EXCEPT ![t] = "returned"]
    /\ UNCHANGED <<authorized, httpMade, credMade, cred, tmp, calls>>
    /\ UNCHANGED gwVars
    /\ UNCHANGED checkVars

\* self.http = <result of cred.authorize>, then the implicit return
L142store(t) ==
    /\ pc[t] = "l142store"
    /\ http' = tmp[t]
    /\ pc' = [pc EXCEPT ![t] = "idle"]
    /\ outcome' = [outcome EXCEPT ![t] = "returned"]
    /\ UNCHANGED <<authorized, httpMade, credMade, cred, tmp, calls>>
    /\ UNCHANGED gwVars
    /\ UNCHANGED checkVars

\* one statement of thread t inside _authorise
Step(t) == L129(t) \/ L131(t) \/ L138(t) \/ L141(t) \/ L142call(t) \/ L142store(t)

----------------------------------------------------------------------------
(* Specifications *)

Init ==
    /\ gw = "new"
    /\ NATION_SLUG = None
    /\ ACCESS_TOKEN = None
    /\ BASE_URL = <<>>
    /\ http = HttpNone
    /\ authorized = {}
    /\ httpMade = 0
    /\ credMade = 0
    /\ pc = [t \in Threads |-> "idle"]
    /\ cred = [t \in Threads |-> None]
    /\ tmp = [t \in Threads |-> HttpNone]
    /\ outcome = [t \in Threads |-> "none"]
    /\ calls = [t \in Threads |-> 0]
    /\ args = <<>>
    /\ raised = <<>>
    /\ stdout = <<>>
    /\ debuglog = <<>>

DoConstruct == \E s \in Slugs, k \in Tokens : Construct(s, k)

DoCheck ==
    \E h \in Headers, c \in Contents, a \in Actions, u \in Urls :
        CheckResponse(h, c, a, u)

\* single thread of control: a call starts, and a response is checked, only
\* when no _authorise call is in progress
SeqBegin == \E t \in Threads : Idle /\ Begin(t)
SeqCheck == Idle /\ DoCheck
DoStep == \E t \in Threads : Step(t)

Next == DoConstruct \/ SeqBegin \/ DoStep \/ SeqCheck

Spec == Init /\ [][Next]_vars

\* two threads sharing the gateway: statements interleave freely
ConcBegin == \E t \in Threads : Begin(t)

NextConc == DoConstruct \/ ConcBegin \/ DoStep

SpecConc == Init /\ [][NextConc]_vars

----------------------------------------------------------------------------
(* Properties *)

called == args # <<>>
status == args[1].status
a_headers == args[1]
a_content == args[2]
a_action == args[3]
a_url == args[4]

\* C1: a _check_response call whose status is in 200..299 returns normally:
\* it raised nothing and constructed no error object.
C1_SuccessReturns ==
    (called /\ status >= 200 /\ status <= 299) => raised = <<>>

C1_Witness == called /\ status = 299 /\ raised = <<>>

\* C2: a _check_response call whose status is outside 200..299 raised exactly
\* one error, of the class the status determines: 404 NBNotFoundError, 400
\* NBBadRequestError, anything else NBResponseError itself.
C2_ErrorKind ==
    (called /\ (status < 200 \/ status > 299)) =>
        /\ Len(raised) = 1
        /\ raised[1].cls = IF status = 404 THEN "NBNotFoundError"
                           ELSE IF status = 400 THEN "NBBadRequestError"
                           ELSE "NBResponseError"

C2_Witness ==
    called /\ status = 400 /\ Len(raised) = 1 /\ raised[1].cls = "NBBadRequestError"

\* C3: the raised error carries the call's own values: msg is attempted_action,
\* header is headers, body is content, url is url (None stays None).
C3_Payload ==
    (called /\ raised # <<>>) =>
        /\ raised[1].msg = a_action
        /\ raised[1].header = a_headers
        /\ raised[1].body = a_content
        /\ raised[1].url = a_url

C3_Witness ==
    /\ called
    /\ Len(raised) = 1
    /\ a_url = None
    /\ raised[1].url = None
    /\ a_action = "get person"
    /\ raised[1].msg = "get person"

\* C4: with calls that do not overlap, no Http object exists before the first
\* _authorise call, exactly one exists once a call has returned, and a present
\* self.http is never replaced by another object nor is another one constructed.
C4_OneSession ==
    /\ []((\A t \in Threads : calls[t] = 0) => httpMade = 0)
    /\ []((\E t \in Threads : outcome[t] = "returned") => (httpMade = 1 /\ http = 1))
    /\ [][http # HttpNone => (http' = http /\ httpMade' = httpMade)]_vars

C4_Witness ==
    /\ Idle
    /\ calls["t1"] = 2
    /\ outcome["t1"] = "returned"
    /\ httpMade = 1
    /\ http = 1
    /\ http \in authorized

\* C5 as stated: no usable gateway results from constructing it with an absent
\* or empty credential.
C5_Original == gw = "ready" => (ACCESS_TOKEN # None /\ ACCESS_TOKEN # "")

\* C5 as amended: __init__ does not look at the credential (it fails only on
\* the slug); a gateway holding None never gets a credentials object, an Http
\* object or a session, every _authorise on it ending at the assertion; a
\* gateway holding the empty string never fails the assertion.
C5_Amended ==
    /\ gw = "failed" => NATION_SLUG = None
    /\ (gw = "ready" /\ ACCESS_TOKEN = None) =>
          /\ http = HttpNone
          /\ httpMade = 0
          /\ credMade = 0
          /\ \A t \in Threads : outcome[t] \in {"none", "running", "AssertionError"}
    /\ (gw = "ready" /\ ACCESS_TOKEN = "") =>
          \A t \in Threads : outcome[t] # "AssertionError"

C5_Witness ==
    /\ gw = "ready"
    /\ ACCESS_TOKEN = None
    /\ Idle
    /\ outcome["t1"] = "AssertionError"
    /\ http = HttpNone

\* C6: when _authorise reaches its assertion with no session and ACCESS_TOKEN
\* None, the call ends there with AssertionError and changes nothing: self.http
\* stays None and no Http or credentials object is constructed.
C6_AssertFails ==
    [][\A t \in Threads :
          (pc[t] = "l131" /\ ACCESS_TOKEN = None /\ pc'[t] # pc[t]) =>
              /\ pc'[t] = "idle"
              /\ outcome'[t] = "AssertionError"
              /\ http = HttpNone
              /\ http' = HttpNone
              /\ httpMade' = httpMade
              /\ credMade' = credMade
              /\ authorized' = authorized
              /\ ACCESS_TOKEN' = ACCESS_TOKEN]_vars

C6_Witness ==
    /\ ACCESS_TOKEN = None
    /\ outcome["t2"] = "AssertionError"
    /\ pc["t2"] = "idle"
    /\ credMade = 0
    /\ httpMade = 0

\* C7: self.http and the authorized objects change only inside _authorise, so
\* no _check_response call, raising or not, changes them; ACCESS_TOKEN never
\* changes once __init__ has set it.
C7_CheckFrame ==
    [][/\ Idle => (http' = http /\ authorized' = authorized /\ httpMade' = httpMade)
       /\ gw # "new" => ACCESS_TOKEN' = ACCESS_TOKEN]_vars

C7_Witness ==
    /\ Idle
    /\ called
    /\ Len(raised) = 1
    /\ http = 1
    /\ http \in authorized
    /\ ACCESS_TOKEN = "FFAA55DDFFAA22"

\* a session is published and no thread is past the test of line 129
Stable == http # HttpNone /\ \A t \in Threads : pc[t] \in {"idle", "l129"}

\* C8 as stated: with two threads calling _authorise concurrently at most one
\* Http object is constructed, and a present self.http is never replaced.
C8_Original ==
    /\ [](httpMade <= 1)
    /\ [][http # HttpNone => http' = http]_vars

\* C8 as amended: _authorise has no one-time-init guard, so each thread that
\* passed line 129 before a handle was stored constructs its own Http object
\* (at most one per thread); once a handle is stored and no thread is past
\* line 129, no further object is constructed and the handle never changes.
C8_Amended ==
    /\ [](httpMade <= Cardinality(Threads))
    /\ [][Stable => (Stable' /\ http' = http /\ httpMade' = httpMade)]_vars

C8_Witness == Idle /\ httpMade = 2 /\ http \in authorized

\* C9 as stated: an error response prints url, header and body once each and
\* logs nothing; a 2xx response prints nothing and logs one debug record whose
\* label is url if not None, else attempted_action if not None, else "Unknown".
C9_Original ==
    called =>
        IF status < 200 \/ status > 299
          THEN /\ stdout = << [fmt |-> "%s", arg |-> IF a_url = None THEN "None" ELSE a_url],
                              [fmt |-> "Header: %s", arg |-> a_headers],
                              [fmt |-> "Body: %s", arg |-> a_content] >>
               /\ debuglog = <<>>
          ELSE /\ stdout = <<>>
               /\ Len(debuglog) = 1
               /\ debuglog[1].level = "debug"
               /\ debuglog[1].arg = IF a_url # None THEN a_url
                                    ELSE IF a_action # None THEN a_action
                                    ELSE "Unknown"

\* C9 as amended: the same, the label being url if it is neither None nor
\* empty, else attempted_action if it is neither None nor empty, else "Unknown".
C9_Amended ==
    called =>
        IF status < 200 \/ status > 299
          THEN /\ stdout = << [fmt |-> "%s", arg |-> IF a_url = None THEN "None" ELSE a_url],
                              [fmt |-> "Header: %s", arg |-> a_headers],
                              [fmt |-> "Body: %s", arg |-> a_content] >>
               /\ debuglog = <<>>
          ELSE /\ stdout = <<>>
               /\ Len(debuglog) = 1
               /\ debuglog[1].level = "debug"
               /\ debuglog[1].arg = IF a_url # None /\ a_url # "" THEN a_url
                                    ELSE IF a_action # None /\ a_action # "" THEN a_action
                                    ELSE "Unknown"

C9_Witness ==
    /\ called
    /\ status = 200
    /\ a_url = ""
    /\ a_action = "get person"
    /\ stdout = <<>>
    /\ debuglog[1].arg = "get person"

\* C10: a present self.http is an object cred.authorize() has wrapped.
C10_PresentIsAuthorized == http # HttpNone => http \in authorized

====
